---- MODULE Spec2Model ----
(***************************************************************************)
(* Model of CninfoDownloader (src/cninfo_activity_downloader.py): the      *)
(* browser-session controller (setup_driver, close_driver,                 *)
(* restart_driver, _cleanup_chrome_processes), the page loop               *)
(* (_download_all_pages), the per-item download loop                       *)
(* (_download_page_files) and the completion detector                      *)
(* (_wait_for_download), together with their environment: the browser      *)
(* processes, the remote listing, the download directory (save_dir) and    *)
(* the per-entity output directory (stock_dir).                            *)
(***************************************************************************)
EXTENDS Integers, Sequences, FiniteSets, TLC

(* ---------------- program constants ---------------- *)
\* mutant: the launch loop allows one attempt more
max_attempts_more == 3 + 1
max_attempts == 3
\* mutant: the restart loop allows one setup_driver call more
max_restart_attempts_more == 3 + 1
max_restart_attempts == 3
Threshold == 10 * 1024

(* ---------------- configuration chosen by the caller ---------------- *)
\* the max_retries argument of download_activity_records, as
\* test_anti_crawler.py passes it (the default is 3)
max_retries == 2
\* the attribute max_downloads_per_session, as test_anti_crawler.py sets it
\* (__init__ sets 5)
max_downloads_per_session == 3

(* ---------------- bounds of the model ---------------- *)
\* listing pages of the harvested entity
NumPages == 3
\* qualifying links on the first listing page, one more than a session may
\* download; every later page has one
FirstPageSize == max_downloads_per_session + 1
\* polls of _wait_for_download before its timeout elapses
MaxPolls == 2
\* files the download directory holds at once
MaxWatch == 2
\* downloads still in flight after their wait timed out
MaxLate == 1
\* environment faults of a run that are told apart; download timeouts and the
\* launch failures that follow a failed launch count as MaxFaults beyond them,
\* other faults stop there
MaxFaults == 3

(* ---------------- the remote listing ---------------- *)
NumItems == FirstPageSize + (NumPages - 1)
Items == 1 .. NumItems
\* the qualifying links of page p in page order
PageItems(p) ==
  IF p = 1 THEN [k \in 1 .. FirstPageSize |-> k]
  ELSE << FirstPageSize + p - 1 >>
\* save_path = stock_dir/clean_filename(text).pdf; the first two links of page 1
\* carry texts that clean_filename maps to the same name ("a/b" and "a:b"),
\* every other link has a name of its own
SavePath(i) == IF i = 2 THEN 1 ELSE i
Paths == {SavePath(i) : i \in Items}
\* the listing of the harvested entity, page by page: all NumPages pages, or a
\* two-page listing whose first page lacks the link with the clashing name
FullListing == [p \in 1 .. NumPages |-> PageItems(p)]
PlainListing == << SelectSeq(PageItems(1), LAMBDA i : i # 2), PageItems(2) >>
Listings == {FullListing, PlainListing}

(* ---------------- files ---------------- *)
NoFile == [size |-> -1, item |-> 0, run |-> 0]
\* sizes a downloaded file can have: exactly the threshold, or above it
Sizes == {Threshold, Threshold + 1}
\* an Output File is complete: it exists and its size exceeds the threshold
Complete(f) == f # NoFile /\ f.size > Threshold
MarkerName == 0
\* stock_dir when download_activity_records is called: empty, or an earlier
\* call left a complete file under one save_path of the first page or under
\* all save_paths, or an interrupted one left an incomplete file under the last
Old(p, sz) == [size |-> sz, item |-> p, run |-> 0]
InitialDirs ==
  {[p \in Paths |-> NoFile],
   [p \in Paths |-> Old(p, Threshold + 1)],
   [p \in Paths |-> IF p = SavePath(NumItems) THEN Old(p, Threshold) ELSE NoFile]}
  \cup {[p \in Paths |-> IF p = SavePath(i) THEN Old(p, Threshold + 1) ELSE NoFile] :
          i \in 1 .. FirstPageSize}

VARIABLES
  pc,               \* position of the single flow of control
  result,           \* value returned by the last call: "none", "true", "false"
  driver,           \* self.driver: 0 is None, else a session id
  drvAll,           \* local `driver` of _download_all_pages
  drvPage,          \* local `driver` of _download_page_files
  download_count,   \* self.download_count
  attempt,          \* loop index of setup_driver
  rattempt,         \* loop index of restart_driver
  setupRet,         \* caller of setup_driver: "run" or "restart"
  setupOk,          \* value setup_driver returns
  restartRet,       \* caller of restart_driver: "health", "budget", "retry"
  restartOk,        \* value restart_driver returns
  page_num, total_downloaded,
  detail_infos, idx, retry, downloaded_count, success,
  before_files, polls,
  procs,            \* browser processes this controller created that are alive
  resp,             \* those of them that still answer WebDriver commands
  userChrome,       \* a browser process the user started is alive
  ui,               \* what the live session renders: <<"blank"|"list"|"detail", page>>
  fs,               \* stock_dir: save_path -> file
  watch,            \* save_dir: set of files [name, ext, size, item, run]
  pending,          \* downloads in flight: [item, sess]
  \* history variables
  launchLog,        \* outcomes of the launch attempts of the running setup_driver
  attempted,        \* items navigated to in this run
  doneAtStart,      \* save_paths complete when this run started
  sessDownloads,    \* successful downloads of the current session
  sessOrigin,       \* what created the current session
  budgetRestarts,   \* budget-triggered restarts of this run
  scanLog,          \* listing pages _find_download_links was run on (0: none shown)
  listing,          \* the remote listing: page -> qualifying links in page order
  checked,          \* _is_driver_healthy was called since the last item attempt
  itemLog,          \* what was done for the item in hand: "attempt", "nobtn", "restart", "ok"
  succeeded,        \* items for which _wait_for_download returned True in this run
  gaveUp,           \* an item was given up after max_retries attempts without a download button
  pagerLog,         \* the pager use of the step just taken
  scn,              \* faults, restarts and resynchronisation of this run
  pollLog,          \* the detector poll of the step just taken
  mapping,          \* mapping_file: stock code -> [orgId, name]
  call              \* the last call of clean_filename or of a resolver, with its result

ctl == << pc, result, attempt, rattempt, setupRet, setupOk, restartRet, restartOk >>
sess == << driver, drvAll, drvPage, procs, resp, userChrome, ui >>
loop == << page_num, total_downloaded, detail_infos, idx, retry, downloaded_count,
           success, download_count >>
files == << before_files, polls, fs, watch, pending >>
hist == << launchLog, attempted, doneAtStart, sessDownloads, sessOrigin,
           budgetRestarts, scanLog >>
items == << itemLog, checked, succeeded, gaveUp >>
run == << ctl, sess, loop, files, hist, listing, items, pagerLog, scn, pollLog >>
resolver == << mapping, call >>
vars == << run, resolver >>


(* ---------------- helpers ---------------- *)
Names(W) == {f.name : f \in W}
NoUi == << "none", 0 >>
\* a session id no handle and no process carries
NewSess ==
  LET used == (procs \cup {driver, drvAll, drvPage}) \ {0}
  IN CHOOSE s \in 1 .. (Cardinality(used) + 1) : s \notin used
\* downloads die with the browser process that runs them
PendingIn(P) == {d \in pending : d.sess \in P}

\* the pager's three strategies: next button, arrow icon, quick-next control
Strategies == 1 .. 3
NoPager == [kind |-> "none", calls |-> 0, found |-> [s \in Strategies |-> FALSE],
            ret |-> FALSE]
\* faults: environment faults so far; restarts: restart_driver calls; degraded:
\* where the session stopped answering (k: before the first attempt of the k-th
\* located item of a page, -1: elsewhere, 0: never); resync: the listing page
\* the current session was resynchronised to (0: it was not)
NoScn == [faults |-> 0, restarts |-> 0, degraded |-> 0, resync |-> 0]
Lost == [faults |-> MaxFaults, restarts |-> 0, degraded |-> 0, resync |-> 0]
\* the record of a run whose faults are not counted: its session may stop
\* answering, and a resynchronisation may fall short, any number of times
Uncounted == [faults |-> -1, restarts |-> 0, degraded |-> 0, resync |-> 0]
Norm(s) == IF s.faults < 0 THEN Uncounted ELSE IF s.faults >= MaxFaults THEN Lost ELSE s
Fault(s, b) ==
  IF s.faults < 0 THEN Uncounted
  ELSE IF b THEN Norm([s EXCEPT !.faults = @ + 1]) ELSE s
\* a session, navigation, click, move or pager fault, or the first failed launch
\* of a start or restart, happens only while the faults of the run are still
\* told apart
MayFault(b) == b => (scn.faults >= 0 /\ scn.faults < MaxFaults)
\* the session stops answering while the faults are still told apart, or in a
\* run whose faults are not counted
MayDegrade == scn.faults < MaxFaults
\* page_num += 1 (line 430); in a run whose faults are not counted a page_num
\* beyond the last page of the listing is kept as it is: every such value makes
\* _navigate_to_page call the pager until it returns False
Incremented(n) == IF scn.faults < 0 /\ n > Len(listing) THEN n ELSE n + 1
\* raised: the poll raised while it inspected save_dir; seen: it observed a new
\* .pdf above the threshold or a complete target_path; ret: what the wait
\* returned at this poll ("none": it goes on)
NoPoll == [raised |-> FALSE, seen |-> FALSE, ret |-> "none"]

(* ---------------- file names and resolvers ---------------- *)
\* A text is a sequence of characters, each written as a string; a Chinese
\* character is written by its pinyin, the full-width colon by its name.
\* line 75: the character class [\\/:*?"<>|]
Illegal == {"\\", "/", ":", "*", "?", "\"", "<", ">", "|"}
\* mutant: only the first match is replaced (count=1)
clean_filename_first(filename) ==
  [k \in 1 .. Len(filename) |->
     IF filename[k] \in Illegal /\ (\A j \in 1 .. k - 1 : filename[j] \notin Illegal)
     THEN "_" ELSE filename[k]]
\* clean_filename, line 75: re.sub replaces every match of the class by "_"
clean_filename(filename) ==
  [k \in 1 .. Len(filename) |-> IF filename[k] \in Illegal THEN "_" ELSE filename[k]]

\* the texts clean_filename is applied to
MaxLen == 3
Alphabet == Illegal \cup {"a", "_"}
Texts == UNION {[1 .. n -> Alphabet] : n \in 0 .. MaxLen}

\* str.startswith
startswith(s, prefix) ==
  Len(s) >= Len(prefix) /\ SubSeq(s, 1, Len(prefix)) = prefix
\* str.isdigit
Digits == {"0", "1", "2", "3", "4", "5", "6", "7", "8", "9"}
isdigit(s) == s # << >> /\ \A k \in 1 .. Len(s) : s[k] \in Digits
\* str.strip
RECURSIVE lstrip(_)
lstrip(s) == IF s # << >> /\ Head(s) = " " THEN lstrip(Tail(s)) ELSE s
RECURSIVE rstrip(_)
rstrip(s) == IF s # << >> /\ s[Len(s)] = " " THEN rstrip(SubSeq(s, 1, Len(s) - 1)) ELSE s
strip(s) == rstrip(lstrip(s))

\* stock codes: one of the preset table, a well-formed one the table lacks, a
\* malformed one
Code000001 == << "0", "0", "0", "0", "0", "1" >>
Code999999 == << "9", "9", "9", "9", "9", "9" >>
CodeBad == << "x" >>
Codes == {Code000001, Code999999, CodeBad}
\* a key that is missing, and None
Absent == << "None" >>

\* _get_from_preset_mapping: the table (its first row; the other rows are alike)
_get_from_preset_mapping(stock_code) ==
  IF stock_code = Code000001
  THEN << "9", "9", "0", "0", "0", "0", "0", "0", "0", "1" >>
  ELSE Absent

\* what get_stock_name returns on failure
ErrFormat == << "cuo", "wu", "fullwidth_colon", "qing", "shu", "ru" >>
ErrNoCode == << "cuo", "wu", "fullwidth_colon", "bu", "cun", "zai" >>
ErrNetwork == << "wang", "luo", "qing", "qiu", "shi", "bai", "fullwidth_colon", "e" >>
ErrOther == << "fa", "sheng", "cuo", "wu", "fullwidth_colon", "e" >>
\* what the request to qt.gtimg.cn yields: a name (parts[1]), no name, a
\* RequestException, another exception
WebAnswers == {<< "ping", "an" >>, << "*", "S", "T" >>, ErrNoCode, ErrNetwork, ErrOther}
Errors == {ErrFormat, ErrNoCode, ErrNetwork, ErrOther}

EmptyMapping == [c \in Codes |-> [orgId |-> Absent, name |-> Absent]]
\* the mapping file of the tests: every known code with orgId and name
TestMapping ==
  [c \in Codes |->
     IF c = Code000001
     THEN [orgId |-> _get_from_preset_mapping(c), name |-> << "ping", "an" >>]
     ELSE [orgId |-> Absent, name |-> Absent]]
\* resolver calls made in one behaviour
MaxCalls == 2
NoCall == [fn |-> "none", n |-> 0, code |-> << >>, force_run |-> FALSE, had |-> FALSE,
           crawl |-> "not_called", failed |-> FALSE, none |-> FALSE, ret |-> << >>]

\* get_stock_name(stock_code, mapping_file): file is what the mapping file is
\* read as, web what the request yields; text is the value returned, failed
\* tells that it is one of the error returns (lines 19, 54, 57, 59)
get_stock_name(stock_code, file, web) ==
  LET code == strip(stock_code)
  IN IF ~ isdigit(code) \/ Len(code) # 6
     THEN [text |-> ErrFormat, failed |-> TRUE]
     ELSE IF code \in DOMAIN file /\ file[code].name # Absent
     THEN [text |-> file[code].name, failed |-> FALSE]
     ELSE [text |-> web, failed |-> web \in Errors]

\* OrgIdCrawler.get_org_id, lines 532-612: the driver cannot be set up or the
\* page raises ("error": None), an orgId is extracted from the page
\* ("extracted"), or none is and the default is returned ("nothing")
CrawlOutcomes == {"error", "extracted", "nothing"}
_crawl_org_id(stock_code, outcome) ==
  IF outcome = "error" THEN Absent
  ELSE IF outcome = "extracted" THEN << "g", "s" >> \o stock_code
  ELSE << "9", "9", "0", "0", "0", "0" >> \o stock_code

\* the downloader after __init__, with the listing and stock_dir it will meet,
\* in a run whose fault record starts as s
InitWith(s) ==
  /\ pc = "idle" /\ result = "none"
  /\ driver = 0 /\ drvAll = 0 /\ drvPage = 0
  /\ download_count = 0
  /\ attempt = 0 /\ rattempt = 0
  /\ setupRet = "run" /\ setupOk = FALSE
  /\ restartRet = "health" /\ restartOk = FALSE
  /\ page_num = 1 /\ total_downloaded = 0
  /\ detail_infos = << >> /\ idx = 1 /\ retry = 0 /\ downloaded_count = 0
  /\ success = FALSE
  /\ before_files = {} /\ polls = 0
  /\ procs = {} /\ resp = {}
  /\ userChrome = TRUE
  /\ ui = NoUi
  /\ fs \in InitialDirs
  /\ watch = {} /\ pending = {}
  /\ launchLog = << >> /\ attempted = {}
  /\ doneAtStart = {p \in Paths : Complete(fs[p])}
  /\ sessDownloads = 0 /\ sessOrigin = "none"
  /\ budgetRestarts = 0 /\ scanLog = << >>
  /\ listing \in Listings
  /\ checked = FALSE /\ itemLog = << >>
  /\ succeeded = {} /\ gaveUp = FALSE
  /\ pagerLog = NoPager /\ scn = s
  /\ pollLog = NoPoll
InitRun == InitWith(NoScn)

Init == InitRun /\ mapping = EmptyMapping /\ call = NoCall

(* ---------------- Session Controller ---------------- *)
\* close_driver: close() and quit() end the browser process; on a session that
\* no longer answers quit() raises, which is logged, and the process stays.
\* self.driver is None afterwards in every case.
close_driver_procs == IF driver # 0 /\ driver \in resp THEN procs \ {driver} ELSE procs

close_driver ==
  /\ procs' = close_driver_procs
  /\ resp' = resp \ {driver}
  /\ pending' = PendingIn(close_driver_procs)
  /\ driver' = 0
  /\ ui' = NoUi

\* mutant: close() and quit() share one try, so quit() is skipped when close()
\* raises
close_driver_calls_onetry(d, close_raises, quit_raises) ==
  IF d = 0 THEN [calls |-> << >>, driver |-> d, raised |-> FALSE]
  ELSE [calls |-> IF close_raises THEN << "close" >> ELSE << "close", "quit" >>,
        driver |-> 0, raised |-> FALSE]
\* close_driver, lines 203-221, by the calls it makes on the driver d it holds
\* (0: None): close() inside its own try, then quit(); an exception of either
\* is caught (lines 208, 214) and the finally clears self.driver
close_driver_calls(d, close_raises, quit_raises) ==
  IF d = 0 THEN [calls |-> << >>, driver |-> d, raised |-> FALSE]
  ELSE [calls |-> << "close", "quit" >>, driver |-> 0, raised |-> FALSE]

\* _cleanup_chrome_processes: taskkill /f /im chrome.exe, chromedriver.exe on
\* Windows, pkill -f chrome, chromedriver elsewhere: every process of that name
\* on the machine is killed, whoever started it.
\* mutant: the cleanup kills nothing
cleanup_survivors_all(P) == P
cleanup_survivors(P) == {}
cleanup_user(u) == FALSE

_cleanup_chrome_processes ==
  /\ procs' = cleanup_survivors(procs)
  /\ resp' = resp \cap cleanup_survivors(procs)
  /\ pending' = PendingIn(cleanup_survivors(procs))
  /\ userChrome' = cleanup_user(userChrome)

\* download_activity_records, lines 298-320: resolve the organisation id and
\* call setup_driver
download_activity_records ==
  /\ pc = "idle"
  /\ pc' = "setup" /\ setupRet' = "run"
  /\ UNCHANGED << result, attempt, rattempt, setupOk, restartRet, restartOk, sess,
                  loop, files, hist >>
  /\ pollLog' = NoPoll
  /\ UNCHANGED << resolver, listing, items, pagerLog, scn >>

\* setup_driver, lines 91-126: release a session that is still held, build the
\* options, enter the launch loop
setup_driver ==
  /\ pc = "setup"
  /\ IF driver # 0 THEN close_driver
     ELSE UNCHANGED << procs, resp, pending, driver, ui >>
  /\ attempt' = 0 /\ launchLog' = << >>
  /\ pc' = "cleanup"
  /\ UNCHANGED << result, rattempt, setupRet, setupOk, restartRet, restartOk,
                  drvAll, drvPage, userChrome, loop, before_files, polls, fs, watch,
                  attempted, doneAtStart, sessDownloads, sessOrigin, budgetRestarts,
                  scanLog >>
  /\ pollLog' = NoPoll
  /\ UNCHANGED << resolver, listing, items, pagerLog, scn >>

\* setup_driver, line 132: the cleanup that precedes every launch attempt
launch_cleanup ==
  /\ pc = "cleanup"
  /\ _cleanup_chrome_processes
  /\ pc' = "create"
  /\ UNCHANGED << result, attempt, rattempt, setupRet, setupOk, restartRet,
                  restartOk, driver, drvAll, drvPage, ui, loop, before_files, polls,
                  fs, watch, hist >>
  /\ pollLog' = NoPoll
  /\ UNCHANGED << resolver, listing, items, pagerLog, scn >>

\* the session origin recorded for a session this setup_driver call creates
OriginOfCall == IF setupRet = "run" THEN "setup" ELSE restartRet

\* setup_driver, lines 147-169, after a launch attempt raised: the driver, if one
\* was assigned, is quit and cleared; a process that does not answer quit stays
\* (zombie); then wait and try again, or re-raise into the outer handler, which
\* returns False
launch_failed(zombie) ==
  /\ driver' = 0 /\ ui' = NoUi
  /\ procs' = procs \cup zombie
  /\ resp' = resp
  /\ IF attempt < max_attempts - 1
     THEN attempt' = attempt + 1 /\ pc' = "cleanup" /\ setupOk' = setupOk
     ELSE attempt' = attempt /\ pc' = "setup_ret" /\ setupOk' = FALSE

\* setup_driver, lines 134-163: webdriver.Chrome(...), the timeouts, the
\* anti-detection script and the about:blank probe, and the handling of their
\* failure.
\*   "ok":        everything succeeded, return True
\*   "ctor_fail": webdriver.Chrome raised, self.driver was not assigned
\*   "post_fail": the process was created and assigned, a later call raised;
\*                alive tells whether it still answers quit
launch_create ==
  /\ pc = "create"
  /\ \E outcome \in {"ok", "ctor_fail", "post_fail"}, alive \in BOOLEAN :
       /\ outcome # "post_fail" => alive
       /\ launchLog' = Append(launchLog, IF outcome = "ok" THEN "ok" ELSE "fail")
       /\ IF outcome = "ok"
          THEN /\ driver' = NewSess
               /\ procs' = procs \cup {NewSess}
               /\ resp' = resp \cup {NewSess}
               /\ ui' = << "blank", 0 >>
               /\ sessDownloads' = 0 /\ sessOrigin' = OriginOfCall
               /\ pc' = "setup_ret" /\ setupOk' = TRUE
               /\ attempt' = attempt
          ELSE /\ launch_failed(IF alive THEN {} ELSE {NewSess})
               /\ UNCHANGED << sessDownloads, sessOrigin >>
       /\ scn' = Fault(scn, outcome # "ok")
       /\ MayFault(outcome # "ok" /\ attempt = 0 /\ rattempt = 0)
  /\ UNCHANGED << result, rattempt, setupRet, restartRet, restartOk,
                  drvAll, drvPage, userChrome, loop, files, attempted, doneAtStart,
                  budgetRestarts, scanLog >>
  /\ pollLog' = NoPoll
  /\ UNCHANGED << resolver, listing, items, pagerLog >>


\* download_activity_records, lines 319-320: the result of the initial setup_driver
setup_return_run ==
  /\ pc = "setup_ret" /\ setupRet = "run"
  /\ launchLog' = << >>
  /\ IF setupOk
     THEN pc' = "open" /\ result' = result
     ELSE pc' = "done" /\ result' = "false"
  /\ attempt' = 0 /\ setupOk' = FALSE
  /\ UNCHANGED << rattempt, setupRet, restartRet, restartOk,
                  sess, loop, files, attempted, doneAtStart, sessDownloads,
                  sessOrigin, budgetRestarts, scanLog >>
  /\ pollLog' = NoPoll
  /\ UNCHANGED << resolver, listing, items, pagerLog, scn >>

\* restart_driver, lines 225-236: close the current driver, wait, enter the loop
restart_driver ==
  /\ pc = "restart"
  /\ IF driver # 0 THEN close_driver
     ELSE UNCHANGED << procs, resp, pending, driver, ui >>
  /\ rattempt' = 0 /\ setupRet' = "restart"
  /\ pc' = "setup"
  /\ UNCHANGED << result, attempt, setupOk, restartRet, restartOk, drvAll,
                  drvPage, userChrome, loop, before_files, polls, fs, watch, hist >>
  /\ scn' = Norm([scn EXCEPT !.restarts = @ + 1, !.resync = 0])
  /\ itemLog' = IF restartRet = "retry" THEN Append(itemLog, "restart") ELSE itemLog
  /\ pollLog' = NoPoll
  /\ UNCHANGED << resolver, listing, checked, succeeded, gaveUp, pagerLog >>

\* restart_driver, lines 237-255: the result of one setup_driver call of the loop
setup_return_restart ==
  /\ pc = "setup_ret" /\ setupRet = "restart"
  /\ launchLog' = << >>
  /\ IF setupOk
     THEN pc' = "restart_ret" /\ restartOk' = TRUE /\ rattempt' = 0
     ELSE IF rattempt < max_restart_attempts - 1
          THEN pc' = "setup" /\ restartOk' = restartOk /\ rattempt' = rattempt + 1
          ELSE pc' = "restart_ret" /\ restartOk' = FALSE /\ rattempt' = 0
  /\ attempt' = 0 /\ setupOk' = FALSE
  /\ setupRet' = IF pc' = "setup" THEN setupRet ELSE "run"
  /\ UNCHANGED << result, restartRet, sess, loop,
                  files, attempted, doneAtStart, sessDownloads, sessOrigin,
                  budgetRestarts, scanLog >>
  /\ pollLog' = NoPoll
  /\ UNCHANGED << resolver, listing, items, pagerLog, scn >>

\* _is_driver_healthy: False without a driver or when reading current_url raises
_is_driver_healthy == driver # 0 /\ driver \in resp

\* mutant: the test of self.driver only, without the read of current_url
is_driver_healthy_call_noread(self, url_raises) ==
  [ret |-> self.driver # 0, raised |-> FALSE, self |-> self]
\* _is_driver_healthy, lines 263-275, as a call on the downloader self =
\* [driver, download_count, save_dir] whose driver raises on the read of
\* current_url or not: line 266 returns False without a driver, the except at
\* line 273 turns a raising read into False, and no statement assigns
is_driver_healthy_call(self, url_raises) ==
  [ret |-> IF self.driver = 0 THEN FALSE ELSE ~ url_raises,
   raised |-> FALSE, self |-> self]

\* the browser dies or hangs: its process stays until it is quit or killed
session_degrades ==
  /\ pc \in {"open", "loop", "detail", "click", "next", "finish"}
  /\ \E s \in resp : resp' = resp \ {s}
  /\ UNCHANGED << ctl, driver, drvAll, drvPage, procs, userChrome, ui, loop, files,
                  launchLog, attempted, doneAtStart, sessDownloads, sessOrigin,
                  budgetRestarts, scanLog >>
  /\ scn' = Fault([scn EXCEPT !.degraded =
                           IF @ = 0 /\ pc = "detail" /\ retry = 0 THEN idx ELSE -1],
                   TRUE)
  /\ MayDegrade
  /\ pollLog' = NoPoll
  /\ UNCHANGED << resolver, listing, items, pagerLog >>


(* ---------------- Pager ---------------- *)
\* _go_to_next_page finds an actionable next-page control: the handle answers,
\* the session shows a listing page, and that page is not the last one
GoNextOk(h, u) == h \in resp /\ u[1] = "list" /\ u[2] < Len(listing)

\* what the three strategies can find on what handle h shows: any of the
\* controls where there is a next page, none otherwise; a control of a page
\* that has not finished rendering is not found
Findings(h, u) ==
  {f \in [Strategies -> BOOLEAN] : (\E s \in Strategies : f[s]) => GoNextOk(h, u)}

\* mutant: the quick-next strategy is not tried
_go_to_next_page_two(found) == found[1] \/ found[2]
\* _go_to_next_page: the strategies are tried in order; the first that finds an
\* enabled control clicks it and returns True; False when none does
_go_to_next_page(found) == \E s \in Strategies : found[s]

\* what a strategy meets in the page: its control is there (present), is
\* rendered (displayed), carries no disabled attribute (enabled), and the
\* ActionChains click on it goes through or raises (perform)
NoControl == [present |-> FALSE, displayed |-> FALSE, enabled |-> FALSE,
              perform |-> "raises"]
ControlStates ==
  {NoControl} \cup [present : {TRUE}, displayed : BOOLEAN, enabled : BOOLEAN,
                    perform : {"clicks", "raises"}]
\* lines 621-622 and 632-634: find_element with not(@disabled), is_enabled();
\* line 645: is_displayed() and is_enabled()
StrategyTests(c, s) == c.present /\ c.enabled /\ (s = 3 => c.displayed)
\* lines 623-626, 635-638, 646-649: the click is performed and True returned; a
\* click that raises is swallowed and the next strategy is tried
StrategyClicks(c, s) == StrategyTests(c, s) /\ c.perform = "clicks"
\* _go_to_next_page on a page with these controls: the strategies whose click
\* was attempted, those whose click was performed, and the value returned
go_to_next_page_run(controls) ==
  LET found == [s \in Strategies |-> StrategyClicks(controls[s], s)]
      reached(s) == \A j \in 1 .. s - 1 : ~ found[j]
  IN [tried |-> {s \in Strategies : reached(s) /\ StrategyTests(controls[s], s)},
      clicks |-> SelectSeq([s \in Strategies |-> s],
                           LAMBDA s : reached(s) /\ found[s]),
      ret |-> _go_to_next_page(found)]

\* _navigate_to_page from listing page u with n advances to make: the pages it
\* can end on and the _go_to_next_page calls made; the loop breaks at the
\* first call that returns False
RECURSIVE _navigate_to_page(_, _, _)
_navigate_to_page(h, u, n) ==
  IF n = 0 THEN {<< u, 0 >>}
  ELSE {<< u, 1 >>}
       \cup (IF GoNextOk(h, u)
              THEN {<< r[1], r[2] + 1 >> :
                      r \in _navigate_to_page(h, << "list", u[2] + 1 >>, n - 1)}
              ELSE {})

(* ---------------- Item Locator ---------------- *)
\* _find_download_links: the qualifying links of the rendered page whose
\* save_path holds no complete file, in page order; nothing when the handle
\* raises or the session shows no listing
\* mutant: the existence test looks in save_dir, where no Output File is kept
AlreadyDownloaded_wrongdir(f) == FALSE
\* line 470: os.path.exists(save_path) and os.path.getsize(save_path) > 10 * 1024
AlreadyDownloaded(f) == f # NoFile /\ f.size > 10 * 1024

_find_download_links ==
  IF drvAll \in resp /\ ui[1] = "list"
  THEN SelectSeq(listing[ui[2]], LAMBDA i : ~ AlreadyDownloaded(fs[SavePath(i)]))
  ELSE << >>

\* `sub in s` for Python strings
Contains(s, sub) ==
  \E k \in 0 .. Len(s) - Len(sub) : SubSeq(s, k + 1, k + Len(sub)) = sub

\* the links of a page as _find_download_links reads them: the text of the
\* element and its href attribute (Absent: it has none). The marker phrase and
\* the path of a detail page are written by tokens.
Marker == << "ji", "lu", "biao" >>
DetailPath == << "/new/disclosure/detail" >>
LinkTexts ==
  {<< >>, << " " >>, << "gong", "gao" >>, Marker \o << "a" >>,
   << " ", "b", ":" >> \o Marker \o << " " >>}
LinkHrefs ==
  {Absent,
   DetailPath \o << "?", "stockCode=" >> \o Code000001 \o << "&", "orgId=", "g" >>,
   DetailPath \o << "?", "stockCode=" >> \o Code999999 \o << "&", "orgId=", "g" >>,
   << "/new/disclosure/stock", "?", "stockCode=" >> \o Code000001}
Links == [text : LinkTexts, href : LinkHrefs]
\* links a page holds
MaxLinks == 2
Pages == UNION {[1 .. n -> Links] : n \in 0 .. MaxLinks}
\* line 466: file_name = f"{self.clean_filename(text)}.pdf"
file_name(text) == clean_filename(text) \o << ".pdf" >>
\* stock_dir: what is stored under the file names of the links that carry the
\* marker phrase; nothing is stored under another name
MarkerNames == {file_name(strip(t)) : t \in {u \in LinkTexts : Contains(u, Marker)}}
Disks == [MarkerNames -> {NoFile, Old(0, Threshold), Old(0, Threshold + 1)}]
FileAt(disk, name) == IF name \in DOMAIN disk THEN disk[name] ELSE NoFile

\* mutant: the href is not tested for the stock code
LinkQualifies_anycode(link, stock_code) ==
  LET text == strip(link.text)
  IN /\ text # << >> /\ Contains(text, Marker)
     /\ link.href # Absent /\ link.href # << >> /\ Contains(link.href, DetailPath)
\* lines 458-464: text and marker in text and href and the detail path in href
\* and f'stockCode={stock_code}' in href
LinkQualifies(link, stock_code) ==
  LET text == strip(link.text)
  IN /\ text # << >> /\ Contains(text, Marker)
     /\ link.href # Absent /\ link.href # << >> /\ Contains(link.href, DetailPath)
     /\ Contains(link.href, << "stockCode=" >> \o stock_code)

\* _find_download_links on a page the session renders, lines 454-486: the
\* links are visited in document order; a qualifying link is appended unless
\* a file above the threshold is at its save_path
find_download_links(page, stock_code, disk) ==
  LET keep(link) ==
        /\ LinkQualifies(link, stock_code)
        /\ ~ AlreadyDownloaded(FileAt(disk, file_name(strip(link.text))))
      kept == SelectSeq(page, keep)
  IN [k \in 1 .. Len(kept) |->
        [href |-> kept[k].href, file_name |-> file_name(strip(kept[k].text))]]

(* ---------------- Download Orchestrator ---------------- *)
\* mutant: the cleanup empties save_dir
_cleanup_pdf_txt_all(W) == {}
\* _cleanup_pdf_txt: remove pdf.txt from save_dir
_cleanup_pdf_txt(W) == {f \in W : f.name # MarkerName}

\* the downloads that stay in flight once their wait is over; the others never
\* produce a file
LateChoices == {P \in SUBSET pending : Cardinality(P) <= MaxLate}

\* mutant: a retry reuses the session
AttemptFailed_norestart ==
  IF retry < max_retries - 1
  THEN retry' = retry + 1 /\ restartRet' = restartRet /\ pc' = "detail"
  ELSE retry' = retry /\ restartRet' = restartRet /\ pc' = "item_end"
\* _download_page_files, lines 543-551: an attempt failed; restart and retry
\* while attempts remain
AttemptFailed ==
  IF retry < max_retries - 1
  THEN retry' = retry + 1 /\ restartRet' = "retry" /\ pc' = "restart"
  ELSE retry' = retry /\ restartRet' = restartRet /\ pc' = "item_end"

\* download_activity_records, lines 322-347: load the listing, create stock_dir,
\* enter _download_all_pages; an exception returns False after close_driver
open_listing ==
  /\ pc = "open"
  /\ \E ok \in BOOLEAN :
       /\ ok => driver \in resp
       /\ IF ok
          THEN /\ ui' = << "list", 1 >>
               /\ drvAll' = driver /\ page_num' = 1 /\ total_downloaded' = 0
               /\ pc' = "loop"
               /\ UNCHANGED << result, driver, procs, resp, pending >>
          ELSE /\ close_driver
               /\ result' = "false" /\ pc' = "done"
               /\ UNCHANGED << drvAll, page_num, total_downloaded >>
       /\ scn' = Fault(scn, ~ ok /\ driver \in resp)
       /\ MayFault(~ ok /\ driver \in resp)
  /\ UNCHANGED << attempt, rattempt, setupRet, setupOk, restartRet, restartOk,
                  drvPage, userChrome, detail_infos, idx, retry, downloaded_count,
                  success, download_count, before_files, polls, fs, watch,
                  launchLog, attempted, doneAtStart, sessDownloads, sessOrigin,
                  budgetRestarts, scanLog >>
  /\ pollLog' = NoPoll
  /\ UNCHANGED << resolver, listing, items, pagerLog >>

\* _download_all_pages, lines 354-363: the health check that opens every pass
loop_top ==
  /\ pc = "loop"
  /\ IF _is_driver_healthy
     THEN pc' = "scan" /\ restartRet' = restartRet
     ELSE pc' = "restart" /\ restartRet' = "health"
  /\ UNCHANGED << result, attempt, rattempt, setupRet, setupOk, restartOk,
                  sess, loop, files, launchLog, attempted, doneAtStart,
                  sessDownloads, sessOrigin, budgetRestarts, scanLog >>
  /\ checked' = TRUE /\ pagerLog' = NoPager
  /\ pollLog' = NoPoll
  /\ UNCHANGED << resolver, listing, itemLog, succeeded, gaveUp, scn >>

\* the record of a resynchronisation that ended as r = << page shown, calls >>;
\* ending short of page_num is a fault of the pager's page, and happens only
\* while faults are still told apart
Resynced(r) ==
  /\ r[1][2] < page_num => scn.faults < MaxFaults
  /\ pagerLog' = [NoPager EXCEPT !.kind = "resync", !.calls = r[2]]
  /\ scn' = Fault([scn EXCEPT !.resync = r[1][2]], r[1][2] < page_num)

\* _download_all_pages, lines 360-378: after the health-triggered restart
health_restarted ==
  /\ pc = "restart_ret" /\ restartRet = "health"
  /\ IF ~ restartOk
     THEN pc' = "finish" /\ UNCHANGED << drvAll, ui, pagerLog, scn >>
     ELSE /\ drvAll' = driver
          /\ \E ok \in BOOLEAN :
               /\ ok => driver \in resp
               /\ IF ok
                  THEN \E r \in _navigate_to_page(driver, << "list", 1 >>, page_num - 1) :
                         /\ ui' = r[1] /\ pc' = "scan"
                         /\ Resynced(r)
                  ELSE /\ ui' = ui /\ pc' = "finish"
                       /\ pagerLog' = pagerLog
                       /\ scn' = Fault(scn, driver \in resp)
                       /\ MayFault(driver \in resp)
  /\ UNCHANGED << result, attempt, rattempt, setupRet, setupOk, restartRet,
                  restartOk, driver, drvPage, procs, resp, userChrome, loop, files,
                  hist >>
  /\ pollLog' = NoPoll
  /\ UNCHANGED << resolver, listing, items >>

\* _download_all_pages, lines 380-393: scan the page, start _download_page_files
scan_page ==
  /\ pc = "scan"
  /\ detail_infos' = _find_download_links
  /\ scanLog' = IF scn.faults < 0 THEN scanLog
                ELSE Append(scanLog, IF ui[1] = "list" THEN ui[2] ELSE 0)
  /\ IF _find_download_links = << >>
     THEN pc' = "budget"
          /\ UNCHANGED << drvPage, idx, retry, downloaded_count, success >>
     ELSE pc' = "detail" /\ drvPage' = drvAll /\ idx' = 1 /\ retry' = 0
          /\ downloaded_count' = 0 /\ success' = FALSE
  /\ UNCHANGED << result, attempt, rattempt, setupRet, setupOk, restartRet,
                  restartOk, driver, drvAll, procs, resp, userChrome, ui, page_num,
                  total_downloaded, download_count, files, launchLog, attempted,
                  doneAtStart, sessDownloads, sessOrigin, budgetRestarts >>
  /\ pagerLog' = NoPager
  /\ pollLog' = NoPoll
  /\ UNCHANGED << resolver, listing, items, scn >>

\* _download_page_files, lines 511-516: remove pdf.txt, load the detail page
detail_get ==
  /\ pc = "detail"
  /\ watch' = _cleanup_pdf_txt(watch)
  /\ attempted' = attempted \cup {detail_infos[idx]}
  /\ \E ok \in BOOLEAN :
       /\ ok => drvPage \in resp
       /\ IF ok
          THEN ui' = << "detail", 0 >> /\ pc' = "click"
               /\ UNCHANGED << retry, restartRet >>
          ELSE ui' = ui /\ AttemptFailed
       /\ scn' = Fault(scn, ~ ok /\ drvPage \in resp)
       /\ MayFault(~ ok /\ drvPage \in resp)
  /\ UNCHANGED << result, attempt, rattempt, setupRet, setupOk, restartOk,
                  driver, drvAll, drvPage, procs, resp, userChrome, page_num,
                  total_downloaded, detail_infos, idx, downloaded_count, success,
                  download_count, before_files, polls, fs, pending, launchLog,
                  doneAtStart, sessDownloads, sessOrigin, budgetRestarts, scanLog >>
  /\ itemLog' = Append(itemLog, "attempt") /\ checked' = FALSE
  /\ pollLog' = NoPoll
  /\ UNCHANGED << resolver, listing, succeeded, gaveUp, pagerLog >>

\* _download_page_files, lines 518-531: wait for the download button, snapshot
\* save_dir, click
click_download ==
  /\ pc = "click"
  /\ \E ok \in BOOLEAN :
       /\ ok => drvPage \in resp
       /\ IF ok
          THEN /\ before_files' = Names(watch)
               /\ pending' = pending \cup
                    {[item |-> detail_infos[idx], sess |-> drvPage]}
               /\ polls' = 0 /\ pc' = "wait"
               /\ UNCHANGED << retry, restartRet >>
          ELSE /\ AttemptFailed
               /\ UNCHANGED << before_files, pending, polls >>
       /\ itemLog' = IF ok THEN itemLog ELSE Append(itemLog, "nobtn")
       /\ scn' = Fault(scn, ~ ok /\ drvPage \in resp)
       /\ MayFault(~ ok /\ drvPage \in resp)
  /\ UNCHANGED << result, attempt, rattempt, setupRet, setupOk, restartOk,
                  sess, page_num, total_downloaded, detail_infos, idx,
                  downloaded_count, success, download_count, fs, watch, launchLog,
                  attempted, doneAtStart, sessDownloads, sessOrigin,
                  budgetRestarts, scanLog >>
  /\ pollLog' = NoPoll
  /\ UNCHANGED << resolver, listing, checked, succeeded, gaveUp, pagerLog >>


(* ---------------- Completion Detector ---------------- *)
\* line 578: file.lower().endswith('.pdf')
IsPdf(f) == f.ext = "pdf"
\* mutant: the size test admits the threshold itself
NewFileOk_ge(file_size) == file_size >= 10 * 1024
\* line 581: file_size > 10 * 1024
NewFileOk(file_size) == file_size > 10 * 1024
\* mutant: a complete target_path does not end the wait
TargetOk_never(f) == FALSE
\* line 597: os.path.exists(target_path) and os.path.getsize(target_path) > 10 * 1024
TargetOk(f) == f # NoFile /\ f.size > 10 * 1024
\* the file as it is stored under target_path
Stored(f) == [size |-> f.size, item |-> f.item, run |-> f.run]

\* _wait_for_download, lines 564 and 603: a poll yielded nothing; the wait goes
\* on, or its time is up and it returns False. s is the fault record so far
NoResult(s) ==
  IF polls + 1 < MaxPolls
  THEN /\ pc' = pc /\ polls' = polls + 1
       /\ UNCHANGED << retry, restartRet, pending >>
       /\ scn' = s
  ELSE /\ polls' = 0
       /\ AttemptFailed
       /\ pending' \in LateChoices
       /\ scn' = Fault(s, TRUE)

\* _wait_for_download, lines 564-603: one poll. pdf.txt is removed; the new
\* files are visited in the arbitrary order of a Python set: the first new .pdf
\* above the threshold is moved to target_path (a failing shutil.move is
\* swallowed) and the wait returns True; new .pdf files visited before it, or
\* all of them when there is none, are removed; then a complete target_path
\* returns True. A poll in which os.listdir or os.path.getsize raises is given
\* up (lines 600-601); a raising poll is followed as the first fault of a run.
\* The last poll without success returns False.
_wait_for_download ==
  /\ pc = "wait" /\ polls < MaxPolls
  /\ LET W == _cleanup_pdf_txt(watch)
         target == SavePath(detail_infos[idx])
         newPdf == {f \in W : f.name \notin before_files /\ IsPdf(f)}
         big == {f \in newPdf : NewFileOk(f.size)}
         small == newPdf \ big
     IN \E raised \in BOOLEAN :
          /\ raised => scn.faults = 0
          /\ IF raised
             THEN /\ watch' = W /\ fs' = fs
                  /\ NoResult(Fault(scn, TRUE))
             ELSE IF big # {}
             THEN \E b \in big, D \in SUBSET small, moved \in BOOLEAN :
                    /\ watch' = (W \ D) \ (IF moved THEN {b} ELSE {})
                    /\ fs' = IF moved THEN [fs EXCEPT ![target] = Stored(b)] ELSE fs
                    /\ pc' = "wait_true"
                    /\ scn' = Fault(scn, ~ moved)
                    /\ MayFault(~ moved)
                    /\ UNCHANGED << polls, retry, restartRet, pending >>
             ELSE /\ watch' = W \ small
                  /\ fs' = fs
                  /\ IF TargetOk(fs[target])
                     THEN pc' = "wait_true"
                          /\ UNCHANGED << polls, retry, restartRet, pending, scn >>
                     ELSE NoResult(scn)
          /\ pollLog' = [raised |-> raised,
                         seen |-> ~ raised /\ (big # {} \/ TargetOk(fs[target])),
                         ret |-> IF pc' = "wait_true" THEN "true"
                                 ELSE IF pc' = "wait" THEN "none" ELSE "false"]
  /\ before_files' = IF pc' = "wait_true" \/ pc' = "wait" THEN before_files ELSE {}
  /\ UNCHANGED << result, attempt, rattempt, setupRet, setupOk, restartOk,
                  sess, page_num, total_downloaded, detail_infos, idx,
                  downloaded_count, success, download_count,
                  launchLog, attempted, doneAtStart, sessDownloads, sessOrigin,
                  budgetRestarts, scanLog >>
  /\ UNCHANGED << resolver, listing, items, pagerLog >>

\* _download_page_files, lines 534-539: the detector returned True
download_ok ==
  /\ pc = "wait_true"
  /\ downloaded_count' = downloaded_count + 1
  /\ download_count' = download_count + 1
  /\ success' = TRUE
  /\ sessDownloads' = sessDownloads + 1
  /\ pending' \in LateChoices
  /\ before_files' = {} /\ polls' = 0
  /\ pc' = "item_end"
  /\ UNCHANGED << result, attempt, rattempt, setupRet, setupOk, restartRet,
                  restartOk, sess, page_num, total_downloaded, detail_infos, idx,
                  retry, fs, watch, launchLog, attempted,
                  doneAtStart, sessOrigin, budgetRestarts, scanLog >>
  /\ succeeded' = succeeded \cup {detail_infos[idx]}
  /\ itemLog' = Append(itemLog, "ok")
  /\ pollLog' = NoPoll
  /\ UNCHANGED << resolver, listing, checked, gaveUp, pagerLog, scn >>

\* _download_page_files, lines 506-509: after the restart that precedes a retry
retry_restarted ==
  /\ pc = "restart_ret" /\ restartRet = "retry"
  /\ IF restartOk
     THEN drvPage' = driver /\ pc' = "detail"
     ELSE drvPage' = drvPage /\ pc' = "item_end"
  /\ UNCHANGED << result, attempt, rattempt, setupRet, setupOk, restartRet,
                  restartOk, driver, drvAll, procs, resp, userChrome, ui, loop,
                  files, hist >>
  /\ pollLog' = NoPoll
  /\ UNCHANGED << resolver, listing, items, pagerLog, scn >>

\* the download button became actionable in none of the max_retries attempts
NoButton(log) == Len(SelectSeq(log, LAMBDA e : e = "nobtn")) = max_retries

\* mutant: the loop over detail_infos ends at the first item that failed
MoreItems_abort == success /\ idx < Len(detail_infos)
\* line 492: for idx, info in enumerate(detail_infos, 1) has a next element
MoreItems == idx < Len(detail_infos)

\* _download_page_files, lines 552-558 and 492: the item is settled; take the
\* next one or return downloaded_count to _download_all_pages (line 393)
item_end ==
  /\ pc = "item_end"
  /\ IF MoreItems
     THEN /\ idx' = idx + 1 /\ retry' = 0 /\ success' = FALSE
          /\ pc' = "detail"
          /\ UNCHANGED total_downloaded
          /\ UNCHANGED << detail_infos, downloaded_count, drvPage >>
     ELSE /\ total_downloaded' = total_downloaded + downloaded_count
          /\ pc' = "budget"
          /\ idx' = 1 /\ retry' = 0 /\ success' = FALSE
          /\ detail_infos' = << >> /\ downloaded_count' = 0 /\ drvPage' = 0
  /\ UNCHANGED << result, attempt, rattempt, setupRet, setupOk, restartRet,
                  restartOk, driver, drvAll, procs, resp, userChrome, ui, page_num,
                  download_count, files, hist >>
  /\ itemLog' = << >>
  /\ gaveUp' = (gaveUp \/ (~ success /\ NoButton(itemLog)))
  /\ pollLog' = NoPoll
  /\ UNCHANGED << resolver, listing, checked, succeeded, pagerLog, scn >>

(* ---------------- Session Budget Tracker ---------------- *)
\* _download_all_pages, line 396
budget_reached == download_count >= max_downloads_per_session

\* _download_all_pages, lines 395-400
budget_check ==
  /\ pc = "budget"
  /\ IF budget_reached
     THEN pc' = "restart" /\ restartRet' = "budget"
     ELSE pc' = "next" /\ restartRet' = restartRet
  /\ UNCHANGED << result, attempt, rattempt, setupRet, setupOk, restartOk,
                  sess, loop, files, hist >>
  /\ pollLog' = NoPoll
  /\ UNCHANGED << resolver, listing, items, pagerLog, scn >>

\* _download_all_pages, lines 398-420: after the budget-triggered restart
budget_restarted ==
  /\ pc = "restart_ret" /\ restartRet = "budget"
  /\ IF ~ restartOk
     THEN pc' = "finish"
          /\ UNCHANGED << drvAll, ui, download_count, budgetRestarts, pagerLog, scn >>
     ELSE /\ drvAll' = driver
          /\ budgetRestarts' = budgetRestarts + 1
          /\ \E ok \in BOOLEAN :
               /\ ok => driver \in resp
               /\ IF ok
                  THEN \E r \in _navigate_to_page(driver, << "list", 1 >>, page_num - 1) :
                         /\ ui' = r[1]
                         /\ download_count' = 0
                         /\ pc' = "next"
                         /\ Resynced(r)
                  ELSE /\ ui' = ui /\ download_count' = download_count
                       /\ pc' = "finish"
                       /\ pagerLog' = pagerLog
                       /\ scn' = Fault(scn, driver \in resp)
                       /\ MayFault(driver \in resp)
  /\ UNCHANGED << result, attempt, rattempt, setupRet, setupOk, restartRet,
                  restartOk, driver, drvPage, procs, resp, userChrome, page_num,
                  total_downloaded, detail_infos, idx, retry, downloaded_count,
                  success, files, launchLog, attempted, doneAtStart,
                  sessDownloads, sessOrigin, scanLog >>
  /\ pollLog' = NoPoll
  /\ UNCHANGED << resolver, listing, items >>

\* _download_all_pages, lines 422-428
next_page ==
  /\ pc = "next"
  /\ \E found \in Findings(drvAll, ui) :
       /\ IF _go_to_next_page(found)
          THEN ui' = << "list", ui[2] + 1 >> /\ page_num' = Incremented(page_num) /\ pc' = "loop"
          ELSE ui' = ui /\ page_num' = page_num /\ pc' = "finish"
       /\ pagerLog' = [kind |-> "advance", calls |-> 1, found |-> found,
                        ret |-> _go_to_next_page(found)]
       /\ scn' = Fault(scn, ~ _go_to_next_page(found) /\ GoNextOk(drvAll, ui))
       /\ MayFault(~ _go_to_next_page(found) /\ GoNextOk(drvAll, ui))
  /\ UNCHANGED << result, attempt, rattempt, setupRet, setupOk, restartRet,
                  restartOk, driver, drvAll, drvPage, procs, resp, userChrome,
                  total_downloaded, detail_infos, idx, retry, downloaded_count,
                  success, download_count, files, hist >>
  /\ pollLog' = NoPoll
  /\ UNCHANGED << resolver, listing, items >>

\* _download_all_pages, lines 430-431, and the finally of
\* download_activity_records, lines 346-347
finish ==
  /\ pc = "finish"
  /\ result' = IF total_downloaded > 0 THEN "true" ELSE "false"
  /\ close_driver
  /\ pc' = "done"
  /\ UNCHANGED << attempt, rattempt, setupRet, setupOk, restartRet, restartOk,
                  drvAll, drvPage, userChrome, loop, before_files, polls, fs, watch,
                  hist >>
  /\ pagerLog' = NoPager
  /\ pollLog' = NoPoll
  /\ UNCHANGED << resolver, listing, items, scn >>

(* ---------------- environment ---------------- *)
FreshName == CHOOSE n \in 1 .. (Cardinality(watch) + 1) : n \notin Names(watch)
\* what a download leaves in save_dir: a .pdf at or above the threshold, a
\* partial file under another extension, or the stray pdf.txt
Landed(d) ==
  {[name |-> FreshName, ext |-> "pdf", size |-> sz, item |-> d.item, run |-> 1] :
     sz \in Sizes}
  \cup {[name |-> FreshName, ext |-> "tmp", size |-> Threshold + 1, item |-> d.item,
         run |-> 1],
        [name |-> MarkerName, ext |-> "txt", size |-> Threshold, item |-> d.item,
         run |-> 1]}

\* a download in flight in a live browser lands in save_dir
download_lands ==
  /\ pc \in {"click", "wait"}
  /\ \E d \in pending : \E f \in Landed(d) :
       /\ d.sess \in procs
       /\ Cardinality({g \in watch : g.name # f.name}) < MaxWatch
       /\ watch' = {g \in watch : g.name # f.name} \cup {f}
       /\ pending' = pending \ {d}
  /\ UNCHANGED << ctl, sess, loop, before_files, polls, fs, hist >>
  /\ pollLog' = NoPoll
  /\ UNCHANGED << resolver, listing, items, pagerLog, scn >>

(* ---------------- resolver calls ---------------- *)
\* _load_mapping: the file as it is read; {} when it cannot be read
_load_mapping(readable) == IF readable THEN mapping ELSE EmptyMapping

\* _save_to_mapping: the entry gets the name get_stock_name returns, whatever
\* it is; a failing write is swallowed
_save_to_mapping(stock_code, org_id, loaded, web, written) ==
  mapping' =
    IF written
    THEN [loaded EXCEPT ![stock_code] =
            [orgId |-> org_id, name |-> get_stock_name(stock_code, loaded, web).text]]
    ELSE mapping

\* clean_filename applied to a text; it reads nothing but its argument, so it
\* is applied before any resolver call changed the mapping file
apply_clean_filename ==
  /\ call.n = 0
  /\ \E filename \in Texts :
       call' = [NoCall EXCEPT !.fn = "clean_filename", !.n = call.n + 1,
                              !.code = filename, !.ret = clean_filename(filename)]
  /\ UNCHANGED << run, mapping >>

\* the calls that read or write the mapping file; they follow each other, the
\* application of a function that reads its arguments only is followed by none
ResolverCalls == {"none", "get_org_id_by_code", "stock_dir"}

\* get_org_id_by_code (CninfoDownloader.get_org_id passes its arguments on)
get_org_id_by_code ==
  /\ call.n < MaxCalls /\ call.fn \in ResolverCalls
  /\ \E stock_code \in Codes, force_run \in BOOLEAN, readable \in BOOLEAN,
        outcome \in CrawlOutcomes, web \in WebAnswers, written \in BOOLEAN :
       LET loaded == _load_mapping(readable)
           preset == _get_from_preset_mapping(stock_code)
           crawled == _crawl_org_id(stock_code, outcome)
           done(fields) ==
             call' = [fields EXCEPT !.fn = "get_org_id_by_code", !.n = call.n + 1,
                                    !.code = stock_code, !.force_run = force_run,
                                    !.had = (mapping[stock_code].orgId # Absent)]
       IN IF ~ force_run /\ loaded[stock_code].orgId # Absent
          THEN /\ done([NoCall EXCEPT !.ret = loaded[stock_code].orgId])
               /\ mapping' = mapping
          ELSE IF preset # Absent
          THEN /\ _save_to_mapping(stock_code, preset, loaded, web, written)
               /\ done([NoCall EXCEPT !.ret = preset])
          ELSE IF crawled # Absent
          THEN /\ _save_to_mapping(stock_code, crawled, loaded, web, written)
               /\ done([NoCall EXCEPT !.ret = crawled, !.crawl = outcome])
          ELSE /\ mapping' = mapping
               /\ done([NoCall EXCEPT !.ret = Absent, !.none = TRUE, !.crawl = outcome])
  /\ UNCHANGED run

\* download_activity_records, lines 331-336: the name of the output
\* subdirectory
name_stock_dir ==
  /\ call.n < MaxCalls /\ call.fn \in ResolverCalls
  /\ \E stock_code \in Codes, web \in WebAnswers :
       LET got == get_stock_name(stock_code, mapping, web)
           stock_name ==
             IF \/ got.text = << >>
                \/ startswith(got.text, << "cuo", "wu" >>)
                \/ startswith(got.text, << "wang", "luo" >>)
             THEN stock_code ELSE got.text
       IN call' = [NoCall EXCEPT !.fn = "stock_dir", !.n = call.n + 1,
                                 !.code = stock_code, !.failed = got.failed,
                                 !.ret = clean_filename(stock_name)]
  /\ UNCHANGED << run, mapping >>

\* get_org_id(stock_code) as download_activity_records and _download_all_pages
\* call it (force_run left False): the value get_org_id_by_code returns
org_id_returned(stock_code, loaded, outcome) ==
  IF loaded[stock_code].orgId # Absent THEN loaded[stock_code].orgId
  ELSE IF _get_from_preset_mapping(stock_code) # Absent
  THEN _get_from_preset_mapping(stock_code)
  ELSE _crawl_org_id(stock_code, outcome)
\* and what it leaves in the mapping file
org_id_saved(stock_code, loaded, outcome, web, written) ==
  IF loaded[stock_code].orgId # Absent
       \/ org_id_returned(stock_code, loaded, outcome) = Absent
  THEN mapping' = mapping
  ELSE _save_to_mapping(stock_code, org_id_returned(stock_code, loaded, outcome),
                        loaded, web, written)

\* the org_id argument of download_activity_records: None, or the id the caller
\* knows for the code
SuppliedIds(stock_code) == {Absent, << "g", "s" >> \o stock_code}

\* download_activity_records, lines 311-327: the id of the URL of the run's
\* first navigation. supplied: the org_id argument; url: the id the URL is built
\* with (Absent: the run returned False at line 316 and built none); consulted:
\* calls of get_org_id made for it
harvest_start ==
  /\ call.n = 0
  /\ \E stock_code \in Codes, readable \in BOOLEAN, outcome \in CrawlOutcomes,
        web \in WebAnswers, written \in BOOLEAN :
       \E org_id \in SuppliedIds(stock_code) :
         LET loaded == _load_mapping(readable)
             got == org_id_returned(stock_code, loaded, outcome)
             log(url, consulted) ==
               call' = [NoCall EXCEPT !.fn = "harvest_start", !.n = call.n + 1,
                                      !.code = stock_code,
                                      !.ret = [supplied |-> org_id, first |-> url,
                                               url |-> url, consulted |-> consulted]]
         IN IF org_id # Absent
            THEN log(org_id, 0) /\ mapping' = mapping
            ELSE /\ log(got, 1)
                 /\ org_id_saved(stock_code, loaded, outcome, web, written)
  /\ UNCHANGED run

\* _download_all_pages, lines 365-369 and 405-409: the id of the URL the listing
\* is reloaded with after a restart
harvest_renavigate ==
  /\ call.n < MaxCalls
  /\ call.fn \in {"harvest_start", "harvest_renavigate"}
  /\ call.ret.first # Absent
  /\ \E readable \in BOOLEAN, outcome \in CrawlOutcomes, web \in WebAnswers,
        written \in BOOLEAN :
       LET loaded == _load_mapping(readable)
       IN /\ call' = [call EXCEPT !.fn = "harvest_renavigate", !.n = call.n + 1,
                                  !.ret.url = org_id_returned(call.code, loaded, outcome),
                                  !.ret.consulted = 1]
          /\ org_id_saved(call.code, loaded, outcome, web, written)
  /\ UNCHANGED run

\* close_driver called twice in a row on a downloader that holds a driver or
\* none, with close() and quit() raising or not
apply_close_driver ==
  /\ call.n = 0
  /\ \E d \in {0, 1}, close_raises \in BOOLEAN, quit_raises \in BOOLEAN :
       LET first == close_driver_calls(d, close_raises, quit_raises)
           second == close_driver_calls(first.driver, close_raises, quit_raises)
       IN call' = [NoCall EXCEPT !.fn = "close_driver", !.n = call.n + 1,
                                 !.code = [driver |-> d, close_raises |-> close_raises,
                                           quit_raises |-> quit_raises],
                                 !.ret = [first |-> first, second |-> second]]
  /\ UNCHANGED << run, mapping >>

\* the downloaders _is_driver_healthy is called on: with a driver or none, any
\* download counter, an empty save_dir or one holding a file
Downloaders ==
  [driver : {0, 1}, download_count : 0 .. max_downloads_per_session,
   save_dir : {{}, {MarkerName}}]

\* _is_driver_healthy called on any downloader, the read of current_url
\* raising or not
apply_is_driver_healthy ==
  /\ call.n = 0
  /\ \E self \in Downloaders, url_raises \in BOOLEAN :
       call' = [NoCall EXCEPT !.fn = "_is_driver_healthy", !.n = call.n + 1,
                              !.code = [self |-> self, url_raises |-> url_raises],
                              !.ret = is_driver_healthy_call(self, url_raises)]
  /\ UNCHANGED << run, mapping >>

\* _go_to_next_page called on a page whose three controls are in any state
apply_go_to_next_page ==
  /\ call.n = 0
  /\ \E controls \in [Strategies -> ControlStates] :
       call' = [NoCall EXCEPT !.fn = "_go_to_next_page", !.n = call.n + 1,
                              !.code = controls,
                              !.ret = go_to_next_page_run(controls)]
  /\ UNCHANGED << run, mapping >>

\* _find_download_links called on a page, for a stock code, over a stock_dir
apply_find_download_links ==
  /\ call.n = 0
  /\ \E page \in Pages, stock_code \in {Code000001, Code999999}, disk \in Disks :
       call' = [NoCall EXCEPT !.fn = "_find_download_links", !.n = call.n + 1,
                              !.code = [page |-> page, stock_code |-> stock_code,
                                        disk |-> disk],
                              !.ret = find_download_links(page, stock_code, disk)]
  /\ UNCHANGED << run, mapping >>

Next ==
  \/ download_activity_records
  \/ setup_driver \/ launch_cleanup \/ launch_create
  \/ setup_return_run \/ restart_driver \/ setup_return_restart
  \/ open_listing \/ loop_top \/ health_restarted \/ scan_page
  \/ detail_get \/ click_download \/ _wait_for_download \/ download_ok
  \/ retry_restarted \/ item_end
  \/ budget_check \/ budget_restarted \/ next_page \/ finish
  \/ session_degrades \/ download_lands

Spec == Init /\ [][Next]_vars

\* clean_filename and the resolvers, called one after another on a mapping file
\* that is empty or as the tests set it up
ResolverInit ==
  /\ InitRun /\ fs = [p \in Paths |-> NoFile] /\ listing = FullListing
  /\ mapping \in {EmptyMapping, TestMapping} /\ call = NoCall
ResolverNext ==
  \/ apply_clean_filename \/ get_org_id_by_code \/ name_stock_dir
  \/ apply_go_to_next_page \/ apply_find_download_links
  \/ harvest_start \/ harvest_renavigate \/ apply_close_driver \/ apply_is_driver_healthy
ResolverSpec == ResolverInit /\ [][ResolverNext]_vars

\* the run in which the session stops answering and the pager fails during a
\* resynchronisation without any limit. The flow of control always takes its
\* next step: every call it makes returns or raises, every sleep ends
Program ==
  \/ download_activity_records
  \/ setup_driver \/ launch_cleanup \/ launch_create
  \/ setup_return_run \/ restart_driver \/ setup_return_restart
  \/ open_listing \/ loop_top \/ health_restarted \/ scan_page
  \/ detail_get \/ click_download \/ _wait_for_download \/ download_ok
  \/ retry_restarted \/ item_end
  \/ budget_check \/ budget_restarted \/ next_page \/ finish
UncountedInit == InitWith(Uncounted) /\ mapping = EmptyMapping /\ call = NoCall
UncountedSpec == UncountedInit /\ [][Next]_vars /\ WF_vars(Program)


(* ======================= claims ======================= *)
\* the save_path the detector was called with
target_path == SavePath(detail_infos[idx])
\* successful downloads of this run so far
Successes == total_downloaded + downloaded_count

\* C1: an item whose Output File was complete when the run started (the state
\* an earlier run over the same listing left) gets no download attempt in this
\* run: it is never navigated to, no download of it is in flight, and no file
\* downloaded for it appears in save_dir or stock_dir.
C1_NoRedownload ==
  \A i \in Items :
    SavePath(i) \in doneAtStart =>
      /\ i \notin attempted
      /\ \A d \in pending : d.item # i
      /\ \A f \in watch : ~ (f.item = i /\ f.run = 1)
      /\ \A p \in Paths : ~ (fs[p].item = i /\ fs[p].run = 1)

\* a finished run that skipped a complete file and downloaded another item
C1_Witness ==
  /\ pc = "done" /\ result = "true"
  /\ doneAtStart # {} /\ attempted # {}
  /\ \E p \in Paths : fs[p].run = 1

\* C2: once the file at a save_path is complete, no step replaces or deletes it.
C2_CompleteNeverReplaced ==
  [][\A p \in Paths : Complete(fs[p]) => fs'[p] = fs[p]]_vars

\* C3: the detector returns True only at a poll where a new .pdf file of
\* save_dir, or the file at target_path, is larger than 10 * 1024 bytes.
C3_SuccessOnlyAboveThreshold ==
  pc = "wait_true" =>
    \/ fs[target_path] # NoFile /\ fs[target_path].size > 10 * 1024
    \/ \E f \in watch :
         f.name \notin before_files /\ f.ext = "pdf" /\ f.size > 10 * 1024

\* the detector returned True for a file it moved to target_path
C3_Witness ==
  /\ pc = "wait_true"
  /\ fs[target_path].run = 1 /\ fs[target_path].item = detail_infos[idx]
  /\ fs[target_path].size = Threshold + 1

\* C4: when the detector returns True a complete file is at target_path.
C4_SuccessMeansStored ==
  pc = "wait_true" => Complete(fs[target_path])

\* C5: before every item attempt of a run without failures, the number of
\* budget-triggered restarts is floor(k / N), for k the successful downloads so far.
C5_OneRestartPerN ==
  ( /\ pc = "detail" /\ retry = 0
    /\ Cardinality(attempted) = Successes
    /\ sessOrigin \in {"setup", "budget"} )
  => budgetRestarts = Successes \div max_downloads_per_session

\* C6: download_count never exceeds max_downloads_per_session, and no session
\* performs more successful downloads than that.
C6_CountWithinBudget ==
  /\ download_count <= max_downloads_per_session
  /\ sessDownloads <= max_downloads_per_session

\* C7: when work resumes in a session that a restart created, download_count is 0.
C7_RestartResetsCount ==
  ( /\ pc \in {"scan", "detail"}
    /\ sessOrigin \in {"health", "budget", "retry"}
    /\ sessDownloads = 0 )
  => download_count = 0

C9_UserBrowserSurvives == [][userChrome => userChrome']_vars

\* C10: setup_driver makes at most 3 launch attempts and stops at the first
\* success; it returns True with a live session stored, or False after 3
\* failures with driver = None; when the initial setup_driver fails the run
\* returns False without a scan or an item attempt.
C10_BoundedAcquire ==
  /\ Len(launchLog) <= 3
  /\ \A k \in 1 .. Len(launchLog) - 1 : launchLog[k] # "ok"
  /\ (pc = "setup_ret" /\ setupOk) =>
       /\ launchLog[Len(launchLog)] = "ok"
       /\ driver # 0 /\ driver \in procs
  /\ (pc = "setup_ret" /\ ~ setupOk) =>
       /\ Len(launchLog) = 3
       /\ \A k \in 1 .. 3 : launchLog[k] # "ok"
       /\ driver = 0
  /\ (pc = "done" /\ sessOrigin = "none") =>
       /\ result = "false"
       /\ scanLog = << >> /\ attempted = {} /\ pending = {}

\* the initial setup_driver failed three times and the run returned False
C10_Witness ==
  pc = "done" /\ sessOrigin = "none" /\ result = "false" /\ driver = 0

\* attempts made for the item in hand
Attempts(log) == Len(SelectSeq(log, LAMBDA e : e = "attempt"))

\* C11: restart_driver releases the current session once (setup_driver finds
\* none left to release), calls setup_driver at most 3 times and stops at the
\* first success; it returns True with a live session exactly when a call
\* succeeded, and False, with no session live, only after 3 failed calls.
C11_BoundedRestart ==
  /\ [](rattempt < 3)
  /\ [](pc = "setup" /\ setupRet = "restart" => driver = 0)
  /\ [](pc = "restart_ret" =>
          IF restartOk THEN driver # 0 /\ driver \in resp
          ELSE driver = 0 /\ resp = {})
  /\ [][pc = "setup_ret" /\ setupRet = "restart" =>
          IF setupOk THEN pc' = "restart_ret" /\ restartOk'
          ELSE IF rattempt < 3 - 1 THEN pc' = "setup" /\ rattempt' = rattempt + 1
          ELSE pc' = "restart_ret" /\ ~ restartOk']_vars

\* restart_driver returned False after its third setup_driver call failed
C11_Witness ==
  pc = "restart_ret" /\ ~ restartOk /\ driver = 0 /\ procs = {}

\* C12: a located item gets at least one and at most max_retries attempts, none
\* after a success, exactly one restart_driver call before each attempt after
\* the first; an item whose attempts are used up is not a success.
C12_BoundedAttempts ==
  /\ Attempts(itemLog) <= max_retries
  /\ pc = "item_end" => Attempts(itemLog) >= 1
  /\ \A k \in 1 .. Len(itemLog) :
       /\ itemLog[k] = "ok" => k = Len(itemLog)
       /\ (k > 1 /\ itemLog[k] = "attempt") => itemLog[k - 1] = "restart"
       /\ (k > 1 /\ itemLog[k] = "restart") => itemLog[k - 1] # "restart"
       /\ (k = 1) => itemLog[k] = "attempt"
  /\ pc = "item_end" => (success <=> itemLog[Len(itemLog)] = "ok")

\* an item was given up after max_retries attempts with a restart between them
C12_Witness ==
  /\ pc = "item_end" /\ ~ success
  /\ Attempts(itemLog) = max_retries
  /\ \E k \in 1 .. Len(itemLog) : itemLog[k] = "restart"

\* C13: an item whose download button never became actionable is given up, the
\* loop goes on to the next located item, and the run returns True whenever
\* an item succeeded.
C13_FailureDoesNotAbort ==
  /\ [](pc = "done" /\ succeeded # {} => result = "true")
  /\ [][pc = "item_end" /\ ~ success /\ idx < Len(detail_infos) =>
          pc' = "detail" /\ idx' = idx + 1]_vars

\* the run returned True although an item was given up for want of a button
C13_Witness ==
  /\ pc = "done" /\ result = "true"
  /\ gaveUp /\ succeeded # {}

\* C14: a health check precedes every item attempt.
C14_HealthCheckBeforeAttempt == pc = "detail" => checked

\* C15: the session stops answering before the second of four located items
\* and nothing else goes wrong: when the four items are settled one restart
\* has happened, the new session was resynchronised to the page in hand and
\* items 2 to 4 were attempted; the run returns True if an item succeeded.
C15_ScenarioB ==
  /\ ( /\ pc = "item_end" /\ idx = 4 /\ Len(detail_infos) = 4
       /\ scn.degraded = 2 /\ scn.faults = 1 )
     => /\ scn.restarts = 1
        /\ scn.resync = page_num
        /\ {detail_infos[k] : k \in 2 .. 4} \subseteq attempted
  /\ ( /\ pc = "done" /\ scn.degraded = 2 /\ scn.faults = 1
       /\ succeeded # {} )
     => result = "true"

\* C16: a resynchronisation calls _go_to_next_page exactly page_num - 1 times.
C16_ResyncAdvances ==
  pagerLog.kind = "resync" => pagerLog.calls = page_num - 1

C18_ScenarioA ==
  ( /\ pc = "done" /\ listing = PlainListing /\ scn.faults = 0
    /\ Cardinality({k \in 1 .. Len(listing[1]) :
                      SavePath(listing[1][k]) \in doneAtStart}) = 1
    /\ SavePath(listing[2][1]) \notin doneAtStart )
  => /\ Cardinality(attempted) = 3
     /\ Cardinality({k \in 1 .. Len(listing[1]) :
                       listing[1][k] \notin attempted}) = 1
     /\ page_num = 2
     /\ total_downloaded = 3
     /\ result = "true"

\* C19: a run that located no item, with nothing going wrong, does not return
\* the False that a run with located items and no download returns.
C19_NothingToDo ==
  ( /\ pc = "done" /\ scn.faults = 0
    /\ scanLog # << >> /\ attempted = {} )
  => result # "false"

\* C20: the count of a finished run is the number of items the detector
\* reported success for, and the run returns True exactly when it is not 0.
C20_Outcome ==
  pc = "done" =>
    /\ total_downloaded = Cardinality(succeeded)
    /\ result = "true" <=> total_downloaded >= 1

\* C21: when restart_driver returns False, whoever called it (the health
\* check, the budget check, the retry of an item), the next step leaves the
\* page loop; from there the run only returns, and returns True exactly when
\* a download succeeded so far.
C21_RestartFailureEndsRun ==
  /\ [][pc = "restart_ret" /\ ~ restartOk => pc' = "finish"]_vars
  /\ [][pc = "finish" =>
          \/ pc' = "finish"
          \/ pc' = "done" /\ (result' = "true" <=> Successes > 0)]_vars

\* the texts without a character of the class
CleanTexts == UNION {[1 .. n -> Alphabet \ Illegal] : n \in 0 .. MaxLen}

\* C22: clean_filename returns a text of the same length in which every
\* character of \ / : * ? " < > | is replaced by "_" and every other character
\* is kept; it is the identity on texts without such a character, so two
\* different such texts stay different; it maps "" to ""; applying it to its
\* result changes nothing.
C22_CleanFilename ==
  call.fn = "clean_filename" =>
    LET x == call.code
        y == call.ret
        bad == {"\\", "/", ":", "*", "?", "\"", "<", ">", "|"}
    IN /\ Len(y) = Len(x)
       /\ \A k \in 1 .. Len(x) :
            /\ y[k] \notin bad
            /\ y[k] = IF x[k] \in bad THEN "_" ELSE x[k]
       /\ (\A k \in 1 .. Len(x) : x[k] \notin bad) =>
            /\ y = x
            /\ \A t \in CleanTexts : t # x => clean_filename(t) # y
       /\ x = << >> => y = << >>
       /\ clean_filename(y) = y

\* clean_filename was applied to /\a
C22_Witness ==
  /\ call.fn = "clean_filename"
  /\ call.code = << "/", "\\", "a" >> /\ call.ret = << "_", "_", "a" >>

\* C23: when get_stock_name returns one of its error messages, the output
\* subdirectory is named after the stock code.
C23_DirNamedAfterCode ==
  (call.fn = "stock_dir" /\ call.failed) => call.ret = clean_filename(call.code)

\* C24: with force_run the crawler is called once and its result is returned,
\* whatever the mapping file holds and for every code.
C24_ForceRunCrawls ==
  (call.fn = "get_org_id_by_code" /\ call.force_run) =>
    /\ call.crawl # "not_called"
    /\ call.ret = _crawl_org_id(call.code, call.crawl)

\* C25: for a code without orgId in the mapping file and absent from the preset
\* table, when the crawler extracts no orgId the resolver returns None and the
\* mapping file gets no orgId for the code.
C25_NoGuessedId ==
  ( /\ call.fn = "get_org_id_by_code" /\ ~ call.had
    /\ _get_from_preset_mapping(call.code) = Absent
    /\ call.crawl \in {"error", "nothing"} )
  => /\ call.none
     /\ mapping[call.code].orgId = Absent

\* C26: when the detector returns True, save_dir holds no .pdf file that is
\* absent from before_files and has a size of 10 * 1024 bytes or less.
C26_SmallFilesRemoved ==
  pc = "wait_true" =>
    \A f \in watch :
      (f.name \notin before_files /\ f.ext = "pdf") => f.size > 10 * 1024

\* the loop of _wait_for_download keeps polling: time.sleep(1) returns and the
\* next poll is made for as long as the wait has not returned
FairSpec == Spec /\ WF_vars(_wait_for_download)

\* a file the poll accepts is in save_dir, or target_path is complete
Qualifying ==
  \/ \E f \in watch :
       f.name \notin before_files /\ f.ext = "pdf" /\ f.size > 10 * 1024
  \/ fs[target_path] # NoFile /\ fs[target_path].size > 10 * 1024

\* C27: the wait ends. It makes at most MaxPolls polls; a poll that does not
\* raise returns True exactly when a qualifying file is there; a poll that
\* raises yields nothing; a poll that yields nothing is followed by the next
\* poll, except the last one, after which the wait returns False.
C27_WaitTerminates ==
  /\ [](pc = "wait" => polls < MaxPolls)
  /\ [][(pc = "wait" /\ (pc' # "wait" \/ polls' # polls)) =>
          /\ pollLog'.ret = "true" <=> (Qualifying /\ ~ pollLog'.raised)
          /\ pollLog'.ret = "true" <=> pc' = "wait_true"
          /\ pollLog'.ret = "false" <=>
               (~ (Qualifying /\ ~ pollLog'.raised) /\ polls = MaxPolls - 1)
          /\ pollLog'.ret = "none" =>
               pc' = "wait" /\ polls' = polls + 1 /\ fs' = fs]_vars
  /\ (pc = "wait") ~> (pc # "wait")

\* a poll raised, the next poll found the file and the wait returned True
C27_Witness ==
  /\ pc = "wait_true" /\ polls = 1
  /\ pollLog.ret = "true" /\ scn.faults = 1
  /\ \E f \in watch : f.name \notin before_files /\ f.size > Threshold

\* the qualifying links of the whole listing
Listed == UNION {{listing[p][k] : k \in 1 .. Len(listing[p])} : p \in 1 .. Len(listing)}

\* C28: a run in which nothing goes wrong scans every page of the listing once,
\* in increasing order, and attempts every listed item whose save_path held no
\* complete file when the run started.
C28_EveryPageScanned ==
  (pc = "done" /\ scn.faults = 0) =>
    /\ scanLog = [p \in 1 .. Len(listing) |-> p]
    /\ \A i \in Listed : SavePath(i) \notin doneAtStart => i \in attempted

\* C29: the scan and the pager use the handle of the session self.driver holds,
\* and so do the detail navigation and the button wait of an item.
C29_LiveHandle ==
  /\ pc \in {"scan", "next"} => (drvAll = driver /\ driver # 0)
  /\ pc \in {"detail", "click"} => (drvPage = driver /\ driver # 0)

\* C30: a file of this run stored under a save_path is a download of an item
\* with that save_path, and the detector reports success for an item only when
\* the file it accepted is a download of that item.
C30_OwnDownload ==
  /\ \A p \in Paths : fs[p].run = 1 => SavePath(fs[p].item) = p
  /\ pc = "wait_true" =>
       \A f \in watch :
         (f.name \notin before_files /\ f.ext = "pdf" /\ f.size > 10 * 1024)
           => SavePath(f.item) = target_path

\* C31: whenever _find_download_links runs with the counter at page_num the
\* session shows listing page page_num; page_num starts at 1 and changes only
\* by + 1, at a top-level _go_to_next_page that returned True, which moved the
\* listing one page forward; a resynchronisation that stopped early does not
\* leave the counter ahead of the listing.
C31_CounterMatchesListing ==
  /\ [](page_num >= 1)
  /\ [](pc = "scan" => ui = << "list", page_num >>)
  /\ [](pagerLog.kind = "resync" => ui[2] >= page_num)
  /\ [][page_num' # page_num =>
          /\ pc = "next" /\ pagerLog'.kind = "advance" /\ pagerLog'.ret
          /\ page_num' = page_num + 1
          /\ ui[1] = "list" /\ ui' = << "list", ui[2] + 1 >>]_vars

\* C33: _go_to_next_page tries its strategies in the order 1, 2, 3; a strategy
\* clicks only a control that is present, displayed and not disabled; at most
\* one click is performed per call; no strategy is tried after one has clicked,
\* and the first strategy whose control is actionable and whose click goes
\* through is the one that clicks; True is returned exactly when a click was
\* performed.
C33_PagerStrategies ==
  call.fn = "_go_to_next_page" =>
    LET c == call.code
        r == call.ret
        clicked == {r.clicks[k] : k \in 1 .. Len(r.clicks)}
        actionable(s) == c[s].present /\ c[s].displayed /\ c[s].enabled
    IN /\ Len(r.clicks) <= 1
       /\ r.ret <=> Len(r.clicks) = 1
       /\ \A s \in clicked : actionable(s)
       /\ \A s \in r.tried : \A j \in clicked : j >= s
       /\ \A s \in clicked :
            \A j \in 1 .. s - 1 : ~ (actionable(j) /\ c[j].perform = "clicks")
       /\ (\A s \in Strategies : ~ actionable(s)) => ~ r.ret

\* C34: _find_download_links returns, in the order of the page, exactly the
\* links whose text contains the marker phrase, whose href contains the path of
\* a detail page and the stock code being harvested, and at whose save_path no
\* file larger than 10 * 1024 bytes is stored; a file of 10 * 1024 bytes or
\* less at the save_path does not make it skip the link.
C34_LocatedLinks ==
  call.fn = "_find_download_links" =>
    LET page == call.code.page
        code == call.code.stock_code
        disk == call.code.disk
        r == call.ret
        name(k) == clean_filename(strip(page[k].text)) \o << ".pdf" >>
        stored(k) == IF name(k) \in DOMAIN disk THEN disk[name(k)] ELSE NoFile
        wanted(k) ==
          /\ Contains(page[k].text, Marker)
          /\ page[k].href # Absent
          /\ Contains(page[k].href, << "/new/disclosure/detail" >>)
          /\ Contains(page[k].href, << "stockCode=" >> \o code)
          /\ ~ (stored(k) # NoFile /\ stored(k).size > Threshold)
        pos == {k \in 1 .. Len(page) : wanted(k)}
        \* the k-th smallest position wanted
        at(k) == CHOOSE q \in pos : Cardinality({j \in pos : j < q}) = k - 1
    IN /\ Len(r) = Cardinality(pos)
       /\ \A k \in 1 .. Len(r) :
            r[k].href = page[at(k)].href /\ r[k].file_name = name(at(k))
       /\ \A k \in 1 .. Len(page) :
            (wanted(k) /\ stored(k) # NoFile) =>
              \E j \in 1 .. Len(r) : r[j].file_name = name(k)

\* of two links that qualify the one with a complete file was skipped and the
\* one with a file of exactly 10 * 1024 bytes was returned
C34_Witness ==
  /\ call.fn = "_find_download_links"
  /\ Len(call.code.page) = 2 /\ Len(call.ret) = 1
  /\ call.code.page[1].text # call.code.page[2].text
  /\ \A k \in 1 .. 2 : LinkQualifies(call.code.page[k], call.code.stock_code)
  /\ call.ret[1].href = call.code.page[2].href
  /\ call.code.disk[call.ret[1].file_name].size = Threshold

\* C35: get_org_id is called once for the first navigation of a run and once
\* for each navigation that follows a restart, and the id the URL is built
\* with after a restart is an id (not None) equal to the id of the first URL of
\* the run, which is the org_id argument when the caller passed one.
C35_SameOrgId ==
  /\ call.fn = "harvest_start" =>
       /\ call.ret.consulted = 1
       /\ call.ret.supplied # Absent => call.ret.url = call.ret.supplied
  /\ call.fn = "harvest_renavigate" =>
       /\ call.ret.consulted = 1
       /\ call.ret.url # Absent
       /\ call.ret.url = call.ret.first
       /\ call.ret.supplied # Absent => call.ret.url = call.ret.supplied

\* C36: while _wait_for_download runs, every file of save_dir whose name is in
\* before_files and is not pdf.txt stays in save_dir as it is, whatever its
\* extension or size; so all of them are there when the wait returns.
C36_BeforeFilesKept ==
  /\ [](pc \in {"wait", "wait_true"} =>
          \A n \in before_files : n # MarkerName => n \in Names(watch))
  /\ [][pc = "wait" =>
          \A f \in watch :
            (f.name \in before_files /\ f.name # MarkerName) => f \in watch']_vars

\* the wait returned True and a .pdf of 10 * 1024 bytes that was in save_dir
\* before the click is still there, next to a pdf.txt the snapshot held and
\* the poll removed
C36_Witness ==
  /\ pc = "wait_true" /\ pollLog.ret = "true"
  /\ MarkerName \in before_files /\ MarkerName \notin Names(watch)
  /\ \E f \in watch : f.name \in before_files /\ f.ext = "pdf" /\ f.size = Threshold

\* C37: when download_activity_records returns after a session was created,
\* self.driver is None, no browser process of the controller is alive, and a
\* boolean was returned.
C37_SessionReleased ==
  (pc = "done" /\ sessOrigin # "none") =>
    /\ driver = 0
    /\ procs = {}
    /\ result \in {"true", "false"}

\* C38: close_driver never raises; without a driver it calls nothing and
\* changes nothing; with one it calls close() once and quit() once, also when
\* one of them raises, and leaves self.driver = None; a second call right after
\* it calls nothing and leaves self.driver = None.
C38_CloseIdempotent ==
  call.fn = "close_driver" =>
    LET a == call.code
        r == call.ret
    IN /\ ~ r.first.raised /\ ~ r.second.raised
       /\ r.first.driver = 0 /\ r.second.driver = 0
       /\ a.driver = 0 => r.first.calls = << >>
       /\ a.driver # 0 =>
            /\ Cardinality({k \in DOMAIN r.first.calls : r.first.calls[k] = "close"}) = 1
            /\ Cardinality({k \in DOMAIN r.first.calls : r.first.calls[k] = "quit"}) = 1
       /\ r.second.calls = << >>

\* close_driver was called on a driver whose close() raised
C38_Witness ==
  /\ call.fn = "close_driver"
  /\ call.code.driver # 0 /\ call.code.close_raises
  /\ call.ret.first.calls = << "close", "quit" >>

C32_Terminates == <>(pc = "done")

====
